---- MODULE Spec2Model ----
(***************************************************************************)
(* go-m17-listen: the listen-only M17 client.                              *)
(*                                                                         *)
(* The model follows the newest revision of the client in src/:            *)
(*   src/utils.go  1..94    callsign codec, generateRandomCallsign         *)
(*   src/utils.go  96..251  main (entry point with --tui / --gui)          *)
(*   src/tui.go    124..468 Client: listen, sendLSTN, sendDISC, handlers   *)
(* Two goroutines are modelled: the control path (main, or in --gui mode   *)
(* the goroutine main starts) and the receive loop (Client.listen).        *)
(* Strings and packets are sequences of byte values (ASCII codes).         *)
(***************************************************************************)
EXTENDS Integers, Sequences, FiniteSets, TLC

VARIABLES
    useGUI,        \* --gui flag: the control path runs in a goroutine
    callsign,      \* Client.callsign, bytes
    moduleLetter,  \* Client.moduleLetter, one byte
    moduleGiven,   \* len(flag.Args()) == 2: a module letter is on the command line
    family,        \* which kinds of datagram the network carries in this run
    operator,      \* whether a shutdown trigger may occur in this run
    mainpc,        \* position of the control path
    listenpc,      \* position of the receive loop
    proc,          \* "running" | "exited"
    exitStatus,    \* process exit status, -1 while running
    exitCause,     \* "none" | "startup" | "nack" | "panic" | "return"
    ctxDone,       \* c.ctx has been cancelled
    discClosed,    \* c.discChan has been closed (completion signal fired)
    connClosed,    \* the UDP socket has been released
    playerClosed,  \* the oto player has been released
    queue,         \* datagrams waiting in the socket's receive buffer
    lastRead,      \* buf[:n] and addr of Client.listen: the last datagram read
    firedAtTrigger,   \* history: discChan was closed when the first select returned
    tuiFields,     \* history: the tuiData fields the last parsed frame updated, in order
    budget,        \* network events the environment may still produce
    elapsed,       \* seconds spent in the bounded wait: 0, or 5 once the timer fired
    waitResult,    \* "none" | "signal" | "timeout": the select branch taken
    sent,          \* packets written to the socket, oldest first
    ops,           \* teardown operations performed, oldest first
    tuiStatus,     \* tuiData["Status"]
    tuiError,      \* tuiData["Error"]
    reports,       \* number of updateTUI calls so far
    acknSeen,      \* history: an ACKN has been handled
    pings,         \* history: number of PINGs handled
    pongWrites,    \* history: number of PONG writes attempted
    discInTime,    \* history: peer DISC arrived after the shutdown DISC, in time
    frames,        \* history: number of M17 frames whose fields were parsed
    decodes,       \* history: number of vocoder Decode calls
    audioWrites,   \* history: number of player.Write calls
    decodeLog,     \* history: the Decode calls, in order: the half and the result
    audioLog,      \* history: the player.Write calls, in order: the buffer and the result
    codecPc,       \* codec runs: "off", or how far the run has got
    codecIn,       \* codec runs: the string handed to encodeCallsign
    codecEnc,      \* codec runs: what encodeCallsign returned
    codecDec,      \* codec runs: what decodeCallsign returned for those bytes
    codecWire,     \* codec runs: six address bytes taken from a received frame
    typeIn,        \* type-field runs: typ, the uint16 read from lich[12:14]
    typeOut        \* type-field runs: the fields handleM17 derives from it

vars == <<useGUI, callsign, moduleLetter, moduleGiven, family, operator, mainpc, listenpc, proc, exitStatus,
          exitCause, ctxDone, discClosed, connClosed, playerClosed, queue,
          lastRead, firedAtTrigger, tuiFields, budget, elapsed,
          waitResult, sent, ops, tuiStatus, tuiError,
          reports, acknSeen, pings, pongWrites, discInTime, frames, decodes,
          audioWrites, decodeLog, audioLog, codecPc, codecIn, codecEnc,
          codecDec, codecWire, typeIn, typeOut>>

----------------------------------------------------------------------------
(* Bounds of the model *)

\* network events (datagrams, read errors) the environment produces in a run
MaxEvents == 3

(* Program constants *)

\* time.After(5 * time.Second)
WaitSeconds == 5
\* buf := make([]byte, 64) in Client.listen
BufSize == 64
\* a length check that lets 53 bytes through
MinM17Len_OffByOne == 54 - 1

\* if len(packet) < 54 in handleM17
MinM17Len == 54

----------------------------------------------------------------------------
(* Packet MAGIC constants, as bytes *)

MagicLSTN == <<76, 83, 84, 78>>
MagicACKN == <<65, 67, 75, 78>>
MagicNACK == <<78, 65, 67, 75>>
MagicPING == <<80, 73, 78, 71>>
MagicPONG == <<80, 79, 78, 71>>
MagicDISC == <<68, 73, 83, 67>>
MagicM17  == <<77, 49, 55, 32>>

----------------------------------------------------------------------------
(* Callsign codec.  A uint64 is kept as four 16-bit limbs, most           *)
(* significant first, so that 40^9 and the wrap-around at 2^64 are         *)
(* computed exactly.                                                       *)

Limb == 65536

Zero64 == <<0, 0, 0, 0>>

\* the switch without its case for the space character
CharVal_NoSpace(c) ==
    IF 65 <= c /\ c <= 90 THEN (c - 65) + 1
    ELSE IF 48 <= c /\ c <= 57 THEN (c - 48) + 27
    ELSE IF c = 45 THEN 37
    ELSE IF c = 47 THEN 38
    ELSE IF c = 46 THEN 39
    ELSE -1

\* the value of one character in the switch of encodeCallsign, -1 = default
CharVal(c) ==
    IF c = 32 THEN 0
    ELSE IF 65 <= c /\ c <= 90 THEN (c - 65) + 1
    ELSE IF 48 <= c /\ c <= 57 THEN (c - 48) + 27
    ELSE IF c = 45 THEN 37
    ELSE IF c = 47 THEN 38
    ELSE IF c = 46 THEN 39
    ELSE -1

\* w*m + a as a uint64 (modulo 2^64), for m <= 256 and a < 256
MulAddLimbs(w, m, a) ==
    LET t4 == w[4] * m + a
        t3 == w[3] * m + (t4 \div Limb)
        t2 == w[2] * m + (t3 \div Limb)
        t1 == w[1] * m + (t2 \div Limb)
    IN  <<t1 % Limb, t2 % Limb, t3 % Limb, t4 % Limb>>

\* the same, with the operand evaluated once
MulAdd64(w, m, a) == CHOOSE r \in { MulAddLimbs(x, m, a) : x \in {w} } : TRUE

\* the bytes taken from the top of the 48 bits downwards, so that the
\* lowest byte comes first in the result
ByteOf_LowFirst(w, k) ==
    LET j == 5 - k
        l == w[4 - (j \div 2)]
    IN  IF j % 2 = 0 THEN l % 256 ELSE l \div 256

\* byte(address & 0xFF) after address >>= 8 applied k times, k in 0..7
ByteOf(w, k) ==
    LET l == w[4 - (k \div 2)]
    IN  IF k % 2 = 0 THEN l % 256 ELSE l \div 256

\* the loop of encodeCallsign from index i (1-based) down to 1
RECURSIVE EncodeFrom(_, _, _)
EncodeFrom(cs, i, address) ==
    IF i = 0 THEN [ok |-> TRUE, address |-> address]
    ELSE IF CharVal(cs[i]) = -1 THEN [ok |-> FALSE, address |-> Zero64]
    ELSE EncodeFrom(cs, i - 1, MulAdd64(address, 40, CharVal(cs[i])))

\* encodeCallsign: ok = FALSE is the error return (nil bytes); result[i]
\* for i = 5..0 takes the low six bytes, most significant first
encodeCallsign(cs) ==
    LET r == EncodeFrom(cs, Len(cs), Zero64)
    IN  IF r.ok
        THEN [ok |-> TRUE, bytes |-> [i \in 1..6 |-> ByteOf(r.address, 6 - i)]]
        ELSE [ok |-> FALSE, bytes |-> <<>>]

\* a character table that starts at 'A' and has the space last
base40Chars_SpaceLast ==
    [i \in 1..26 |-> 64 + i] \o [i \in 1..10 |-> 47 + i] \o <<45, 47, 46, 32>>

\* base40Chars, 1-based: " ABCDEFGHIJKLMNOPQRSTUVWXYZ0123456789-/."
base40Chars ==
    <<32>> \o [i \in 1..26 |-> 64 + i] \o [i \in 1..10 |-> 47 + i] \o <<45, 47, 46>>

\* the uint64 built by "address = address*256 + uint64(b)" over the bytes
RECURSIVE AddressOf(_, _, _)
AddressOf(encoded, i, address) ==
    IF i > Len(encoded) THEN address
    ELSE AddressOf(encoded, i + 1, MulAdd64(address, 256, encoded[i]))

\* a division that loses what is carried from one limb to the next
DivMod40_NoCarry(w) ==
    [quot |-> <<w[1] \div 40, w[2] \div 40, w[3] \div 40, w[4] \div 40>>,
     rem  |-> w[4] % 40]

\* address / 40 and address % 40 by long division over the limbs
DivMod40(w) ==
    LET c1 == w[1]
        c2 == (c1 % 40) * Limb + w[2]
        c3 == (c2 % 40) * Limb + w[3]
        c4 == (c3 % 40) * Limb + w[4]
    IN  [quot |-> <<c1 \div 40, c2 \div 40, c3 \div 40, c4 \div 40>>,
         rem  |-> c4 % 40]

\* a loop that always produces nine characters ("for i := 0; i < 9; i++")
RECURSIVE DecodeFrom_NineChars(_, _)
DecodeFrom_NineChars(address, cs) ==
    IF Len(cs) = 9 THEN cs
    ELSE CHOOSE r \in { DecodeFrom_NineChars(d.quot, Append(cs, base40Chars[d.rem + 1]))
                          : d \in {DivMod40(address)} } : TRUE

\* the loop "for address > 0" of decodeCallsign, appending to callsign
RECURSIVE DecodeFrom(_, _)
DecodeFrom(address, cs) ==
    IF address = Zero64 THEN cs
    ELSE CHOOSE r \in { DecodeFrom(d.quot, Append(cs, base40Chars[d.rem + 1]))
                          : d \in {DivMod40(address)} } : TRUE

\* decodeCallsign
decodeCallsign(encoded) == DecodeFrom(AddressOf(encoded, 1, Zero64), <<>>)

----------------------------------------------------------------------------
(* Inputs *)

\* a charset of lower-case letters
charset_LowerCase == [i \in 1..26 |-> 96 + i] \o [i \in 1..10 |-> 47 + i]

\* const charset = "ABCDEFGHIJKLMNOPQRSTUVWXYZ0123456789", 1-based
charset == [i \in 1..26 |-> 64 + i] \o [i \in 1..10 |-> 47 + i]

\* generateRandomCallsign, for the five values picks[i] that
\* rng.Intn(len(charset)) returns
generateRandomCallsign(picks) == MagicLSTN \o [i \in 1..5 |-> charset[picks[i] + 1]]

\* the module letter main hands to NewClient: flag.Arg(1)[0] when there
\* are two arguments, else ' '
ModuleLetterOf(given, arg) == IF given THEN arg[1] ELSE 32

\* one run's command line and generated callsign: the --gui flag, the
\* callsign ("LSTNAAAAA", "LSTNK9Z0Q"), whether a module letter is given,
\* and flag.Arg(1) ("" when absent, "A")
Configs ==
    { [gui |-> FALSE, callsign |-> generateRandomCallsign(<<0, 0, 0, 0, 0>>),
       given |-> FALSE, module |-> ModuleLetterOf(FALSE, <<>>)],
      [gui |-> TRUE,  callsign |-> generateRandomCallsign(<<10, 35, 25, 26, 16>>),
       given |-> TRUE, module |-> ModuleLetterOf(TRUE, <<65>>)] }

\* a datagram (or a failed read) as the receive loop sees it:
\*   from  "peer" (the relay's IP and port), "other", or "neterr" (the read fails)
\*   magic its first four bytes, len its length, typ the LICH type field
\*   pay   packet[36:52], the 16 bytes of payload of a stream frame
Dgram(f, m, l, t) == [from |-> f, magic |-> m, len |-> l, typ |-> t, pay |-> <<>>]

\* the 16 payload bytes k+1 .. k+16
Payload(k) == [i \in 1..16 |-> k + i]

\* a datagram with the stream tag "M17 "
Frame(f, l, t, p) == [from |-> f, magic |-> MagicM17, len |-> l, typ |-> t, pay |-> p]

Datagrams ==
    { Dgram("peer", m, 10, 0) : m \in {MagicPING, MagicACKN, MagicNACK, MagicDISC} }
    \cup { Frame("peer", 54, 5, Payload(0)) }

\* what the receive loop drops or absorbs: a PONG, a listen-request, a
\* datagram from another source, a failed read, a datagram of 3 bytes
NoiseDatagrams ==
    { Dgram("peer", MagicPONG, 10, 0), Dgram("peer", MagicLSTN, 11, 0),
      Dgram("other", MagicDISC, 10, 0), Dgram("neterr", <<>>, 0, 0),
      Frame("peer", 3, 0, <<>>) }

\* frames for the two filters of handleM17, by type field:
\*   4 stream bit 0 (voice), 13 encryption type 1 (voice), 3 data only,
\*   1 data type 0, 5 voice, 7 voice and data
FilterFrames ==
    { Frame("peer", 54, t, Payload(0)) : t \in {4, 13, 3, 1, 5, 7} }

\* stream-tagged datagrams of 4, 53, 54 and 65 bytes
LengthFrames ==
    { Frame("peer", 4, 0, <<>>), Frame("peer", 53, 5, Payload(0)),
      Frame("peer", 54, 5, Payload(0)), Frame("peer", 65, 7, Payload(100)) }

\* two voice frames from the relay, and datagrams from another source
VoiceFrames ==
    { Frame("peer", 54, 5, Payload(0)), Frame("peer", 54, 7, Payload(100)),
      Frame("other", 54, 5, Payload(200)), Dgram("other", MagicNACK, 10, 0),
      Dgram("other", MagicPING, 10, 0) }

\* what the network carries, by family of run
FamilyDatagrams ==
    [control |-> Datagrams, noise |-> NoiseDatagrams, filters |-> FilterFrames,
     lengths |-> LengthFrames, voice |-> VoiceFrames]

Receivable ==
    Datagrams \cup NoiseDatagrams \cup FilterFrames \cup LengthFrames \cup VoiceFrames

\* the runs: both command lines with the control datagrams and an operator
\* who may end the run; the noise with an operator; the frame families while
\* nobody ends the run
Profiles ==
    { [config |-> c, family |-> "control", operator |-> TRUE] : c \in Configs }
    \cup { [config |-> c, family |-> "noise", operator |-> TRUE] :
              c \in {x \in Configs : ~x.gui} }
    \cup { [config |-> c, family |-> f, operator |-> FALSE] :
              c \in {x \in Configs : ~x.gui}, f \in {"filters", "lengths", "voice"} }

----------------------------------------------------------------------------
(* Helpers shared by the actions *)

Running == proc = "running"

\* the process ends: the operating system releases the socket and the player
Exit(status, cause) ==
    /\ proc' = "exited"
    /\ exitStatus' = status
    /\ exitCause' = cause
    /\ connClosed' = TRUE
    /\ playerClosed' = TRUE

NoExit == UNCHANGED <<proc, exitStatus, exitCause, connClosed, playerClosed>>

\* updateTUI(field, value) for the fields "Status" and "Error"
ReportStatus(v) ==
    tuiStatus' = v /\ reports' = reports + 1 /\ UNCHANGED <<tuiError, tuiFields>>
ReportError(v)  ==
    tuiError' = v /\ reports' = reports + 1 /\ UNCHANGED <<tuiStatus, tuiFields>>
NoReport == UNCHANGED <<tuiStatus, tuiError, reports, tuiFields>>

\* c.conn.Write(packet) by goroutine who; ok = FALSE is a write error
Written(who, packet, ok) ==
    IF ok THEN Append(sent, [by |-> who, pkt |-> packet]) ELSE sent

\* the packet sendDISC builds
DiscPacket == MagicDISC \o encodeCallsign(callsign).bytes

\* the packet sendLSTN builds
LstnPacket ==
    LET p == MagicLSTN \o encodeCallsign(callsign).bytes
    IN  IF moduleLetter # 0 THEN Append(p, moduleLetter) ELSE p

\* a reply that repeats the tag of the request instead of PONG
PongPacket_EchoTag == MagicPING \o encodeCallsign(callsign).bytes

\* the packet handlePing builds
PongPacket == MagicPONG \o encodeCallsign(callsign).bytes

HistoryVars == <<acknSeen, pings, pongWrites, frames, decodes, audioWrites,
                 decodeLog, audioLog>>
ConfigVars  == <<useGUI, callsign, moduleLetter, moduleGiven, family, operator>>

----------------------------------------------------------------------------
(* Initial state: flags parsed, callsign generated, no client yet *)

\* no client yet: nothing sent, received, reported or released
NoClient ==
    /\ mainpc = "start"
    /\ listenpc = "idle"
    /\ proc = "running"
    /\ exitStatus = -1
    /\ exitCause = "none"
    /\ ctxDone = FALSE
    /\ discClosed = FALSE
    /\ connClosed = FALSE
    /\ playerClosed = FALSE
    /\ queue = <<>>
    /\ lastRead = Dgram("none", <<>>, 0, 0)
    /\ firedAtTrigger = FALSE
    /\ tuiFields = <<>>
    /\ budget = MaxEvents
    /\ elapsed = 0
    /\ waitResult = "none"
    /\ sent = <<>>
    /\ ops = <<>>
    /\ tuiStatus = ""
    /\ tuiError = ""
    /\ reports = 0
    /\ acknSeen = FALSE
    /\ pings = 0
    /\ pongWrites = 0
    /\ discInTime = FALSE
    /\ frames = 0
    /\ decodes = 0
    /\ audioWrites = 0
    /\ decodeLog = <<>>
    /\ audioLog = <<>>

CodecVars == <<codecPc, codecIn, codecEnc, codecDec, codecWire, typeIn, typeOut>>

\* no type field parsed yet
NoFields ==
    [ packetStreamIndicator |-> 0, dataTypeIndicator |-> 0, encryptionType |-> 0,
      encryptionSubtype |-> 0, channelAccessNumber |-> 0 ]

\* nothing encoded, decoded or parsed yet
CodecIdle ==
    /\ codecIn = <<>>
    /\ codecEnc = [ok |-> FALSE, bytes |-> <<>>]
    /\ codecDec = <<>>
    /\ codecWire = <<>>
    /\ typeIn = 0
    /\ typeOut = NoFields

\* the codec variables of a run of the program are not used
CodecOff ==
    /\ codecPc = "off"
    /\ CodecIdle

Init ==
    /\ \E p \in Profiles :
          /\ useGUI = p.config.gui
          /\ callsign = p.config.callsign
          /\ moduleLetter = p.config.module
          /\ moduleGiven = p.config.given
          /\ family = p.family
          /\ operator = p.operator
    /\ NoClient
    /\ CodecOff

----------------------------------------------------------------------------
(* The control path: main, utils.go 216..250 (176..214 with --gui) *)

\* NewClient or sendLSTN fails: log.Fatalf ends the process with status 1
StartFail ==
    /\ Running /\ mainpc = "start"
    /\ Exit(1, "startup")
    /\ UNCHANGED <<ConfigVars, CodecVars, lastRead, mainpc, listenpc, ctxDone, discClosed, queue,
                   budget, elapsed, waitResult, sent, ops, tuiStatus, tuiError,
                   reports, tuiFields, discInTime, firedAtTrigger, HistoryVars>>

\* NewClient, sendLSTN and "go client.listen()" succeed; main blocks in the
\* first select
Start ==
    /\ Running /\ mainpc = "start"
    /\ \E enc \in {encodeCallsign(callsign)} :
          /\ enc.ok
          /\ sent' = Written("main", LstnPacket, TRUE)
    /\ mainpc' = "trigger"
    /\ listenpc' = "select"
    /\ NoExit /\ NoReport
    /\ UNCHANGED <<ConfigVars, CodecVars, lastRead, ctxDone, discClosed, queue, budget, elapsed,
                   waitResult, ops, discInTime, firedAtTrigger, HistoryVars>>

\* the first select returns: a termination signal on sigChan, or
\* termbox.PollEvent returned
Trigger ==
    /\ Running /\ mainpc = "trigger"
    /\ operator
    /\ ops' = Append(ops, <<"main", "trigger">>)
    /\ firedAtTrigger' = discClosed
    /\ mainpc' = "sendDISC"
    /\ NoExit /\ NoReport
    /\ UNCHANGED <<ConfigVars, CodecVars, lastRead, listenpc, ctxDone, discClosed, queue, budget,
                   elapsed, waitResult, sent, discInTime, HistoryVars>>

\* a shutdown path that sends no DISC once the relay has disconnected
MainSendDISC_SkipIfClosed ==
    /\ Running /\ mainpc = "sendDISC"
    /\ IF discClosed
       THEN UNCHANGED <<sent, ops>>
       ELSE /\ \E ok \in BOOLEAN :
                  sent' = Written("main", DiscPacket, ok /\ encodeCallsign(callsign).ok)
            /\ ops' = Append(ops, <<"main", "sendDISC">>)
    /\ mainpc' = "cancel"
    /\ NoExit /\ NoReport
    /\ UNCHANGED <<ConfigVars, CodecVars, lastRead, listenpc, ctxDone, discClosed, queue, budget,
                   elapsed, waitResult, discInTime, firedAtTrigger, HistoryVars>>

\* client.sendDISC(); its error is dropped
MainSendDISC ==
    /\ Running /\ mainpc = "sendDISC"
    /\ \E ok \in BOOLEAN :
          sent' = Written("main", DiscPacket, ok /\ encodeCallsign(callsign).ok)
    /\ ops' = Append(ops, <<"main", "sendDISC">>)
    /\ mainpc' = "cancel"
    /\ NoExit /\ NoReport
    /\ UNCHANGED <<ConfigVars, CodecVars, lastRead, listenpc, ctxDone, discClosed, queue, budget,
                   elapsed, waitResult, discInTime, firedAtTrigger, HistoryVars>>

\* client.cancel(), then the second select is entered and its timer armed
MainCancel ==
    /\ Running /\ mainpc = "cancel"
    /\ ctxDone' = TRUE
    /\ ops' = ops \o << <<"main", "cancel">>, <<"main", "wait">> >>
    /\ mainpc' = "wait"
    /\ elapsed' = 0
    /\ NoExit /\ NoReport
    /\ UNCHANGED <<ConfigVars, CodecVars, lastRead, listenpc, discClosed, queue, budget,
                   waitResult, sent, discInTime, firedAtTrigger, HistoryVars>>

\* what follows the second select: main returns and the process ends with
\* status 0; with --gui only the goroutine ends and startGUI keeps the
\* process, its socket and its player alive
AfterWait ==
    /\ mainpc' = "returned"
    /\ IF useGUI THEN NoExit ELSE Exit(0, "return")

\* case <-client.discChan
MainWaitSignal ==
    /\ Running /\ mainpc = "wait"
    /\ discClosed
    /\ waitResult' = "signal"
    /\ ops' = Append(ops, <<"main", "signalled">>)
    /\ AfterWait
    /\ NoReport
    /\ UNCHANGED <<ConfigVars, CodecVars, lastRead, listenpc, ctxDone, discClosed, queue, budget,
                   elapsed, sent, discInTime, firedAtTrigger, HistoryVars>>

\* a timeout branch that is ready at once (time.After(0))
MainWaitTimeout_NoTimer ==
    /\ Running /\ mainpc = "wait"
    /\ waitResult' = "timeout"
    /\ ops' = Append(ops, <<"main", "timeout">>)
    /\ AfterWait
    /\ NoReport
    /\ UNCHANGED <<ConfigVars, CodecVars, lastRead, listenpc, ctxDone, discClosed, queue, budget,
                   elapsed, sent, discInTime, firedAtTrigger, HistoryVars>>

\* case <-time.After(5 * time.Second)
MainWaitTimeout ==
    /\ Running /\ mainpc = "wait"
    /\ elapsed = WaitSeconds
    /\ waitResult' = "timeout"
    /\ ops' = Append(ops, <<"main", "timeout">>)
    /\ AfterWait
    /\ NoReport
    /\ UNCHANGED <<ConfigVars, CodecVars, lastRead, listenpc, ctxDone, discClosed, queue, budget,
                   elapsed, sent, discInTime, firedAtTrigger, HistoryVars>>

\* the receive loop has a step to take without waiting for the network
ListenReady ==
    \/ listenpc = "select"
    \/ listenpc = "read" /\ queue # <<>>

\* the five seconds of time.After pass; goroutines that can run do so well
\* within that time, so it passes only when both are blocked
Tick ==
    /\ Running /\ mainpc = "wait"
    /\ elapsed < WaitSeconds
    /\ ~discClosed
    /\ ~ListenReady
    /\ elapsed' = WaitSeconds
    /\ NoExit /\ NoReport
    /\ UNCHANGED <<ConfigVars, CodecVars, lastRead, mainpc, listenpc, ctxDone, discClosed, queue,
                   budget, waitResult, sent, ops, discInTime, firedAtTrigger, HistoryVars>>

----------------------------------------------------------------------------
(* The network *)

\* the shutdown path's own DISC has gone out
ShutdownDiscSent ==
    \E i \in DOMAIN sent : sent[i].by = "main" /\ SubSeq(sent[i].pkt, 1, 4) = MagicDISC

\* a datagram (or an error to be returned by the next read) reaches the socket
Deliver ==
    /\ Running /\ mainpc # "start"
    /\ budget > 0
    /\ \E d \in FamilyDatagrams[family] :
          /\ queue' = Append(queue, d)
          /\ discInTime' =
                (\/ discInTime
                 \/ /\ d.from = "peer" /\ d.magic = MagicDISC /\ d.len >= 4
                    /\ ShutdownDiscSent
                    /\ mainpc \in {"cancel", "wait"}
                    /\ elapsed < WaitSeconds)
    /\ budget' = budget - 1
    /\ NoExit /\ NoReport
    /\ UNCHANGED <<ConfigVars, CodecVars, lastRead, firedAtTrigger, mainpc, listenpc,
                   ctxDone, discClosed, elapsed, waitResult, sent, ops, HistoryVars>>

----------------------------------------------------------------------------
(* The receive loop: Client.listen and the handlers, tui.go 207..467 *)

\* n of "n, addr, err := c.conn.ReadFromUDP(buf)": at most the buffer
RecvLen(d) == IF d.len > BufSize THEN BufSize ELSE d.len

HandledMagics == {MagicPING, MagicACKN, MagicNACK, MagicDISC, MagicM17}

\* the datagram the blocked read returns
Reading(d) ==
    /\ Running /\ listenpc = "read"
    /\ queue # <<>>
    /\ d = Head(queue)
    /\ queue' = Tail(queue)
    /\ lastRead' = d

\* handlePacket is entered with buf[:n] and takes the case of magic m
Dispatch(d, m) ==
    /\ Reading(d)
    /\ d.from = "peer"
    /\ RecvLen(d) >= 4
    /\ d.magic = m

\* a loop that repeats the listen-request at the top of every iteration
\* until an ACKN has been handled
ListenSelect_Retry ==
    /\ Running /\ listenpc = "select"
    /\ listenpc' = IF ctxDone THEN "stopped" ELSE "read"
    /\ sent' = IF acknSeen \/ ctxDone THEN sent ELSE Written("listen", LstnPacket, TRUE)
    /\ NoExit /\ NoReport
    /\ UNCHANGED <<ConfigVars, CodecVars, lastRead, mainpc, ctxDone, discClosed, queue, budget,
                   elapsed, waitResult, ops, discInTime, firedAtTrigger, HistoryVars>>

\* a loop that never looks at the context: "for { n, addr, err := ... }"
ListenSelect_NoCancel ==
    /\ Running /\ listenpc = "select"
    /\ listenpc' = "read"
    /\ NoExit /\ NoReport
    /\ UNCHANGED <<ConfigVars, CodecVars, lastRead, mainpc, ctxDone, discClosed, queue, budget,
                   elapsed, waitResult, sent, ops, discInTime, firedAtTrigger, HistoryVars>>

\* top of the for loop: select { case <-c.ctx.Done(): return; default: ... }
ListenSelect ==
    /\ Running /\ listenpc = "select"
    /\ listenpc' = IF ctxDone THEN "stopped" ELSE "read"
    /\ NoExit /\ NoReport
    /\ UNCHANGED <<ConfigVars, CodecVars, lastRead, mainpc, ctxDone, discClosed, queue, budget,
                   elapsed, waitResult, sent, ops, discInTime, firedAtTrigger, HistoryVars>>

\* a loop that returns on every read error
ReadError_GivesUp ==
    /\ \E d \in Receivable :
          /\ Reading(d)
          /\ d.from = "neterr"
    /\ listenpc' = "stopped"
    /\ NoReport
    /\ NoExit
    /\ UNCHANGED <<ConfigVars, CodecVars, mainpc, ctxDone, discClosed, budget, elapsed,
                   waitResult, sent, ops, discInTime, firedAtTrigger, HistoryVars>>

\* ReadFromUDP returns an error: the loop ends on a closed socket, and
\* otherwise reports the error and goes on
ReadError ==
    /\ \E d \in Receivable :
          /\ Reading(d)
          /\ d.from = "neterr"
    /\ IF connClosed
       THEN listenpc' = "stopped" /\ NoReport
       ELSE listenpc' = "select" /\ ReportError("failed to read from UDP")
    /\ NoExit
    /\ UNCHANGED <<ConfigVars, CodecVars, mainpc, ctxDone, discClosed, budget, elapsed,
                   waitResult, sent, ops, discInTime, firedAtTrigger, HistoryVars>>

\* a loop without the source check, as far as DISC goes: the datagram is
\* handled as if the relay had sent it
ReadUnknownSource_NoFilter ==
    /\ \E d \in Receivable :
          /\ Reading(d)
          /\ d.from = "other"
          /\ discClosed' = (discClosed \/ d.magic = MagicDISC)
    /\ listenpc' = "select"
    /\ NoReport
    /\ NoExit
    /\ UNCHANGED <<ConfigVars, CodecVars, mainpc, ctxDone, budget, elapsed,
                   waitResult, sent, ops, discInTime, firedAtTrigger, HistoryVars>>

\* the source is not the relay's IP and port
ReadUnknownSource ==
    /\ \E d \in Receivable :
          /\ Reading(d)
          /\ d.from = "other"
    /\ listenpc' = "select"
    /\ ReportError("received packet from unknown source")
    /\ NoExit
    /\ UNCHANGED <<ConfigVars, CodecVars, mainpc, ctxDone, discClosed, budget, elapsed,
                   waitResult, sent, ops, discInTime, firedAtTrigger, HistoryVars>>

\* a handlePacket with a default case that reports the unknown tag
HandleIgnored_Reports ==
    /\ \E d \in Receivable :
          /\ Reading(d)
          /\ d.from = "peer"
          /\ RecvLen(d) < 4 \/ d.magic \notin HandledMagics
    /\ listenpc' = "select"
    /\ ReportError("unknown packet")
    /\ NoExit
    /\ UNCHANGED <<ConfigVars, CodecVars, mainpc, ctxDone, discClosed, budget, elapsed,
                   waitResult, sent, ops, discInTime, firedAtTrigger, HistoryVars>>

\* handlePacket returns at once: fewer than 4 bytes, or no case matches
HandleIgnored ==
    /\ \E d \in Receivable :
          /\ Reading(d)
          /\ d.from = "peer"
          /\ RecvLen(d) < 4 \/ d.magic \notin HandledMagics
    /\ listenpc' = "select"
    /\ NoExit /\ NoReport
    /\ UNCHANGED <<ConfigVars, CodecVars, mainpc, ctxDone, discClosed, budget, elapsed,
                   waitResult, sent, ops, discInTime, firedAtTrigger, HistoryVars>>

\* a handlePing that treats a failed write as fatal (log.Fatalf)
HandlePing_FatalWrite ==
    /\ \E d \in Receivable : Dispatch(d, MagicPING)
    /\ pings' = pings + 1
    /\ pongWrites' = pongWrites + 1
    /\ \E ok \in BOOLEAN :
          /\ sent' = Written("listen", PongPacket, ok)
          /\ IF ok THEN NoExit /\ listenpc' = "select"
             ELSE Exit(1, "startup") /\ UNCHANGED listenpc
    /\ NoReport
    /\ UNCHANGED <<ConfigVars, CodecVars, mainpc, ctxDone, discClosed, budget, elapsed,
                   waitResult, ops, discInTime, firedAtTrigger, acknSeen, frames, decodes,
                   audioWrites, decodeLog, audioLog>>

\* handlePing
HandlePing ==
    /\ \E d \in Receivable : Dispatch(d, MagicPING)
    /\ pings' = pings + 1
    /\ \E enc \in {encodeCallsign(callsign)} :
          IF ~enc.ok
          THEN /\ ReportError("failed to encode callsign")
               /\ UNCHANGED <<sent, pongWrites>>
          ELSE /\ pongWrites' = pongWrites + 1
               /\ \E ok \in BOOLEAN :
                     /\ sent' = Written("listen", PongPacket, ok)
                     /\ IF ok THEN NoReport
                        ELSE ReportError("failed to send PONG packet")
    /\ listenpc' = "select"
    /\ NoExit
    /\ UNCHANGED <<ConfigVars, CodecVars, mainpc, ctxDone, discClosed, budget, elapsed,
                   waitResult, ops, discInTime, firedAtTrigger, acknSeen, frames, decodes,
                   audioWrites, decodeLog, audioLog>>

\* handleACKN
HandleACKN ==
    /\ \E d \in Receivable : Dispatch(d, MagicACKN)
    /\ ReportStatus("Connection accepted by relay/reflector")
    /\ acknSeen' = TRUE
    /\ listenpc' = "select"
    /\ NoExit
    /\ UNCHANGED <<ConfigVars, CodecVars, mainpc, ctxDone, discClosed, budget, elapsed,
                   waitResult, sent, ops, discInTime, firedAtTrigger, pings, pongWrites,
                   frames, decodes, audioWrites, decodeLog, audioLog>>

\* handleNACK: sendDISC, cancel, conn.Close, player.Close, os.Exit(1)
HandleNACK ==
    /\ \E d \in Receivable : Dispatch(d, MagicNACK)
    /\ ReportStatus("Connection not accepted by relay/reflector")
    /\ \E ok \in BOOLEAN :
          sent' = Written("listen", DiscPacket, ok /\ encodeCallsign(callsign).ok)
    /\ ctxDone' = TRUE
    /\ ops' = ops \o << <<"listen", "sendDISC">>, <<"listen", "cancel">>,
                        <<"listen", "connClose">>, <<"listen", "playerClose">>,
                        <<"listen", "exit1">> >>
    /\ Exit(1, "nack")
    /\ UNCHANGED <<ConfigVars, CodecVars, mainpc, listenpc, discClosed, budget, elapsed,
                   waitResult, discInTime, firedAtTrigger, HistoryVars>>

\* a handleDISC that acts only once an ACKN has been handled
HandleDISC_ConnectedOnly ==
    /\ \E d \in Receivable : Dispatch(d, MagicDISC)
    /\ IF ~acknSeen
       THEN /\ NoReport /\ NoExit
            /\ listenpc' = "select"
            /\ UNCHANGED discClosed
       ELSE /\ ReportStatus("Received DISC packet")
            /\ IF discClosed
               THEN /\ Exit(2, "panic")
                    /\ UNCHANGED <<discClosed, listenpc>>
               ELSE /\ discClosed' = TRUE
                    /\ listenpc' = "select"
                    /\ NoExit
    /\ UNCHANGED <<ConfigVars, CodecVars, mainpc, ctxDone, budget, elapsed, waitResult,
                   sent, ops, discInTime, firedAtTrigger, HistoryVars>>

\* handleDISC: close(c.discChan); closing a closed channel panics, and the
\* unrecovered panic ends the process with status 2
HandleDISC ==
    /\ \E d \in Receivable : Dispatch(d, MagicDISC)
    /\ ReportStatus("Received DISC packet")
    /\ IF discClosed
       THEN /\ Exit(2, "panic")
            /\ UNCHANGED <<discClosed, listenpc>>
       ELSE /\ discClosed' = TRUE
            /\ listenpc' = "select"
            /\ NoExit
    /\ UNCHANGED <<ConfigVars, CodecVars, mainpc, ctxDone, budget, elapsed, waitResult,
                   sent, ops, discInTime, firedAtTrigger, HistoryVars>>


\* the encryption type taken one bit too high: (typ >> 4) & 3
TypeField_EncShift(typ) ==
    [ packetStreamIndicator |-> typ % 2,
      dataTypeIndicator     |-> (typ \div 2) % 4,
      encryptionType        |-> (typ \div 16) % 4,
      encryptionSubtype     |-> (typ \div 32) % 4,
      channelAccessNumber   |-> (typ \div 128) % 16 ]

\* the data type taken without the shift: typ & 3
TypeField_DataTypeLow(typ) ==
    [ packetStreamIndicator |-> typ % 2,
      dataTypeIndicator     |-> typ % 4,
      encryptionType        |-> (typ \div 8) % 4,
      encryptionSubtype     |-> (typ \div 32) % 4,
      channelAccessNumber   |-> (typ \div 128) % 16 ]

\* the channel access number taken five bits wide: (typ >> 7) & 0x1F
TypeField_WideCan(typ) ==
    [ packetStreamIndicator |-> typ % 2,
      dataTypeIndicator     |-> (typ \div 2) % 4,
      encryptionType        |-> (typ \div 8) % 4,
      encryptionSubtype     |-> (typ \div 32) % 4,
      channelAccessNumber   |-> (typ \div 128) % 32 ]

\* handleM17, "Parse Type field": typ & 1, (typ >> 1) & 3, (typ >> 3) & 3,
\* (typ >> 5) & 3, (typ >> 7) & 0xF
TypeField(typ) ==
    [ packetStreamIndicator |-> typ % 2,
      dataTypeIndicator     |-> (typ \div 2) % 4,
      encryptionType        |-> (typ \div 8) % 4,
      encryptionSubtype     |-> (typ \div 32) % 4,
      channelAccessNumber   |-> (typ \div 128) % 16 ]

\* updateTUI calls that report the parsed fields of one frame
FieldReports == 12

\* the fields reported without the payload
ParsedFields_NoPayload ==
    << "StreamID", "FrameNumber", "DST", "SRC", "TYPE", "META",
       "PacketStreamIndicator", "DataTypeIndicator", "EncryptionType",
       "EncryptionSubtype", "ChannelAccessNumber" >>

\* the fields those calls name, in the order of the calls
ParsedFields ==
    << "StreamID", "FrameNumber", "DST", "SRC", "TYPE", "META", "Payload",
       "PacketStreamIndicator", "DataTypeIndicator", "EncryptionType",
       "EncryptionSubtype", "ChannelAccessNumber" >>

\* what the vocoder and the player do with one voice frame
VoiceOutcomes == {"played", "decode1 failed", "decode2 failed", "write failed"}

\* a frame whose first half decoded is played whatever the second half did
Plays_Partial(o) == o # "decode1 failed"

\* c.playAudio(audio) is reached: both Decode calls returned without error
Plays(o) == o \in {"played", "write failed"}

\* c.codec2.Decode(half) when it succeeds: the block of int16 samples the
\* vocoder produces for the 8 bytes h
Samples(h) == <<h[1], 0 - h[8]>>

\* the samples written most significant byte first
PcmBytes_BigEndian(audio) ==
    [i \in 1..(2 * Len(audio)) |->
        LET u == audio[(i + 1) \div 2] % 65536
        IN  IF i % 2 = 1 THEN u \div 256 ELSE u % 256]

\* playAudio: binary.LittleEndian.PutUint16(buf[i*2:], uint16(sample))
PcmBytes(audio) ==
    [i \in 1..(2 * Len(audio)) |->
        LET u == audio[(i + 1) \div 2] % 65536
        IN  IF i % 2 = 1 THEN u % 256 ELSE u \div 256]

\* handleM17 (and playAudio)
HandleM17 ==
    /\ \E d \in Receivable :
          /\ Dispatch(d, MagicM17)
          /\ LET t == TypeField(d.typ)
                 half1 == SubSeq(d.pay, 1, 8)
                 half2 == SubSeq(d.pay, 9, 16)
             IN
             IF RecvLen(d) < MinM17Len
             THEN /\ ReportError("invalid M17 packet length")
                  /\ UNCHANGED <<frames, decodes, audioWrites, decodeLog, audioLog>>
             ELSE
             /\ frames' = frames + 1
             /\ tuiFields' = ParsedFields
             /\ IF t.packetStreamIndicator = 0 \/ t.encryptionType # 0
                THEN /\ tuiStatus' = "Ignoring packet mode or encrypted packet"
                     /\ reports' = reports + FieldReports + 1
                     /\ UNCHANGED <<tuiError, decodes, audioWrites, decodeLog, audioLog>>
                ELSE IF t.dataTypeIndicator # 2 /\ t.dataTypeIndicator # 3
                THEN /\ tuiStatus' = "Ignoring non-voice packet"
                     /\ reports' = reports + FieldReports + 1
                     /\ UNCHANGED <<tuiError, decodes, audioWrites, decodeLog, audioLog>>
                ELSE \E o \in VoiceOutcomes :
                     /\ decodes' = decodes + (IF o = "decode1 failed" THEN 1 ELSE 2)
                     /\ decodeLog' = decodeLog \o
                           (IF o = "decode1 failed"
                            THEN <<[half |-> half1, ok |-> FALSE]>>
                            ELSE <<[half |-> half1, ok |-> TRUE],
                                   [half |-> half2, ok |-> o # "decode2 failed"]>>)
                     /\ audioWrites' = audioWrites + (IF Plays(o) THEN 1 ELSE 0)
                     /\ audioLog' =
                           (IF Plays(o)
                            THEN Append(audioLog,
                                   [pcm |-> PcmBytes(Samples(half1) \o Samples(half2)),
                                    ok  |-> o = "played"])
                            ELSE audioLog)
                     /\ IF o = "played"
                        THEN /\ reports' = reports + FieldReports
                             /\ UNCHANGED <<tuiStatus, tuiError>>
                        ELSE /\ reports' = reports + FieldReports + 1
                             /\ tuiError' =
                                   (IF o = "decode1 failed"
                                    THEN "failed to decode first voice frame"
                                    ELSE IF o = "decode2 failed"
                                    THEN "failed to decode second voice frame"
                                    ELSE "failed to play audio")
                             /\ UNCHANGED tuiStatus
    /\ listenpc' = "select"
    /\ NoExit
    /\ UNCHANGED <<ConfigVars, CodecVars, mainpc, ctxDone, discClosed, budget, elapsed,
                   waitResult, sent, ops, discInTime, firedAtTrigger, acknSeen, pings,
                   pongWrites>>

----------------------------------------------------------------------------
(* Specifications *)

ListenStep ==
    \/ ListenSelect
    \/ ReadError
    \/ ReadUnknownSource
    \/ HandleIgnored
    \/ HandlePing
    \/ HandleACKN
    \/ HandleNACK
    \/ HandleDISC
    \/ HandleM17

Next ==
    \/ StartFail
    \/ Start
    \/ Trigger
    \/ MainSendDISC
    \/ MainCancel
    \/ MainWaitSignal
    \/ MainWaitTimeout
    \/ Tick
    \/ Deliver
    \/ ListenSelect
    \/ ReadError
    \/ ReadUnknownSource
    \/ HandleIgnored
    \/ HandlePing
    \/ HandleACKN
    \/ HandleNACK
    \/ HandleDISC
    \/ HandleM17

Spec == Init /\ [][Next]_vars


\* Scheduling: while some goroutine can run or the timer of the second select
\* is armed, one of them takes a step.  Nothing obliges the network to
\* deliver a datagram, the operator to send a signal, or termbox to produce
\* an event.
ProgramStep ==
    \/ Start
    \/ StartFail
    \/ MainSendDISC
    \/ MainCancel
    \/ MainWaitSignal
    \/ MainWaitTimeout
    \/ Tick
    \/ ListenStep

FairSpec == Spec /\ WF_vars(ProgramStep)

----------------------------------------------------------------------------
(* The callsign codec on its own: encodeCallsign applied to a string, then  *)
(* decodeCallsign applied to the bytes it returned.                         *)

\* longest string enumerated in full
MaxBody == 3

\* a StationAddress has at most 9 characters ("LSTN" + 5 generated ones)
MaxCallsignLen == 9

\* characters the strings are made of: ' ', 'A', '9', '.', and '#', which
\* is outside the alphabet
CodecChars == {32, 65, 57, 46, 35}

\* characters a string is padded with to the full length: ' ', 'Z', '.'
PadChars == {32, 90, 46}

\* all strings over CodecChars of length at most n
RECURSIVE StringsUpTo(_)
StringsUpTo(n) ==
    IF n = 0 THEN {<<>>}
    ELSE LET S == StringsUpTo(n - 1)
         IN  S \cup {Append(t, c) : t \in S, c \in CodecChars}

Pad(c, n) == [i \in 1..n |-> c]

\* every short string, alone and padded in front or behind to 9 characters
CodecInputs ==
    LET B == StringsUpTo(MaxBody)
    IN  B \cup {Pad(c, MaxCallsignLen - Len(b)) \o b : b \in B, c \in PadChars}
          \cup {b \o Pad(c, MaxCallsignLen - Len(b)) : b \in B, c \in PadChars}

\* byte values the six bytes of a received address are made of
WireByteVals == {0, 1, 40, 255}

\* received addresses: every combination of those bytes, and the values
\* 40^9 - 1 (EE 6B 27 FF FF FF) and 40^9 (EE 6B 28 00 00 00)
WireInputs ==
    [1..6 -> WireByteVals]
    \cup { <<238, 107, 39, 255, 255, 255>>, <<238, 107, 40, 0, 0, 0>> }

\* the client variables of a run that only applies a pure function
PureRun ==
    /\ \E c \in Configs :
          /\ ~c.gui
          /\ useGUI = c.gui
          /\ callsign = c.callsign
          /\ moduleLetter = c.module
          /\ moduleGiven = c.given
    /\ family = "control"
    /\ operator = FALSE
    /\ NoClient

CodecInit ==
    /\ PureRun
    /\ \/ /\ codecPc = "input"
          /\ codecIn \in CodecInputs
          /\ codecWire = <<>>
       \/ /\ codecPc = "received"
          /\ codecIn = <<>>
          /\ codecWire \in WireInputs
    /\ codecEnc = [ok |-> FALSE, bytes |-> <<>>]
    /\ codecDec = <<>>
    /\ typeIn = 0
    /\ typeOut = NoFields

ClientVars ==
    <<ConfigVars, mainpc, listenpc, proc, exitStatus, exitCause, ctxDone,
      discClosed, connClosed, playerClosed, queue, lastRead, budget,
      elapsed, waitResult, sent, ops, tuiStatus, tuiError, reports, tuiFields,
      discInTime, firedAtTrigger, HistoryVars>>

\* encodedCallsign, err := encodeCallsign(callsign)
CodecEncode ==
    /\ codecPc = "input"
    /\ codecEnc' = encodeCallsign(codecIn)
    /\ codecPc' = "encoded"
    /\ UNCHANGED <<codecIn, codecDec, codecWire, typeIn, typeOut, ClientVars>>

\* decodeCallsign(encodedCallsign), for the bytes of a successful encoding
CodecDecode ==
    /\ codecPc = "encoded"
    /\ codecEnc.ok
    /\ codecDec' = decodeCallsign(codecEnc.bytes)
    /\ codecPc' = "decoded"
    /\ UNCHANGED <<codecIn, codecEnc, codecWire, typeIn, typeOut, ClientVars>>

\* dst := decodeCallsign(lich[0:6]) / src := decodeCallsign(lich[6:12]),
\* for six bytes as they come off the network
CodecDecodeWire ==
    /\ codecPc = "received"
    /\ codecDec' = decodeCallsign(codecWire)
    /\ codecPc' = "wireDecoded"
    /\ UNCHANGED <<codecIn, codecEnc, codecWire, typeIn, typeOut, ClientVars>>

\* encodeCallsign applied to the string decodeCallsign returned for them
CodecReencode ==
    /\ codecPc = "wireDecoded"
    /\ codecEnc' = encodeCallsign(codecDec)
    /\ codecPc' = "reencoded"
    /\ UNCHANGED <<codecIn, codecDec, codecWire, typeIn, typeOut, ClientVars>>

CodecNext ==
    \/ CodecEncode
    \/ CodecDecode
    \/ CodecDecodeWire
    \/ CodecReencode

CodecSpec == CodecInit /\ [][CodecNext]_vars

----------------------------------------------------------------------------
(* The type field on its own: the "Parse Type field" lines of handleM17     *)
(* applied to every value binary.BigEndian.Uint16(lich[12:14]) can return.  *)

\* a uint16
TypeValues == 0..65535

TypeInit ==
    /\ PureRun
    /\ codecPc = "type"
    /\ typeIn \in TypeValues
    /\ typeOut = NoFields
    /\ codecIn = <<>>
    /\ codecEnc = [ok |-> FALSE, bytes |-> <<>>]
    /\ codecDec = <<>>
    /\ codecWire = <<>>

\* packetStreamIndicator := typ & 0x0001 ... channelAccessNumber := ...
ParseType ==
    /\ codecPc = "type"
    /\ typeOut' = TypeField(typeIn)
    /\ codecPc' = "typeParsed"
    /\ UNCHANGED <<codecIn, codecEnc, codecDec, codecWire, typeIn, ClientVars>>

TypeNext == ParseType

TypeSpec == TypeInit /\ [][TypeNext]_vars

----------------------------------------------------------------------------
(* The session as the specification views it *)

\* Connecting (listen-request sent, no accept yet), Connected (accept
\* received), Disconnecting (shutdown disconnect sent), Closed (the bounded
\* wait is over), Rejected (ended by handleNACK); besides these, the process
\* may not have started a session or may have died of a panic
Session ==
    IF exitCause = "startup" THEN "StartupFailed"
    ELSE IF exitCause = "nack" THEN "Rejected"
    ELSE IF exitCause = "panic" THEN "Crashed"
    ELSE IF mainpc = "start" THEN "NotStarted"
    ELSE IF mainpc = "returned" THEN "Closed"
    ELSE IF mainpc \in {"cancel", "wait"} THEN "Disconnecting"
    ELSE IF acknSeen THEN "Connected"
    ELSE "Connecting"

\* the teardown operations of one goroutine, in the order performed
OpsOf(who) ==
    LET Mine(e) == e[1] = who
        S == SelectSeq(ops, Mine)
    IN  [i \in 1..Len(S) |-> S[i][2]]

IsPrefix(s, t) == Len(s) <= Len(t) /\ SubSeq(t, 1, Len(s)) = s

----------------------------------------------------------------------------
(* C1: on the external shutdown trigger the control path sends DISC, then  *)
(* cancels the receive loop, then waits; the session is Closed only once   *)
(* the completion signal has fired or the 5 seconds have elapsed, and      *)
(* when no DISC was ever handled only by the timeout.                      *)

----------------------------------------------------------------------------
(* C2: when the peer's DISC reaches the socket after the shutdown path's   *)
(* own DISC went out and before the 5 seconds are over, the completion     *)
(* signal fires and the wait ends on the signal, not on the timeout,       *)
(* whatever else the peer sent in between.                                 *)

C2_PeerDiscEndsWait ==
    (discInTime /\ waitResult # "none") => (discClosed /\ waitResult = "signal")

----------------------------------------------------------------------------
(* C3: once the external trigger has fired (in Connecting or Connected),   *)
(* the session eventually reaches Closed, acknowledged by the peer or not. *)

C3_EventuallyClosed ==
    (mainpc = "sendDISC") ~> (Session = "Closed")

----------------------------------------------------------------------------
(* C4: in Closed the socket and the audio player have both been released,  *)
(* and neither is released while the session is Connecting, Connected or   *)
(* Disconnecting.                                                          *)

C4_ReleasedAtClosed ==
    /\ Session = "Closed" => (connClosed /\ playerClosed)
    /\ Session \in {"Connecting", "Connected", "Disconnecting"} =>
          (~connClosed /\ ~playerClosed)

----------------------------------------------------------------------------
(* C5: a NACK makes the receive loop send DISC, cancel, close the socket,  *)
(* close the player and exit with status 1, in this order and without the  *)
(* bounded wait; no session ends without that wait in any other way.       *)

C5_OnlyNackSkipsWait ==
    /\ exitCause = "nack" =>
          /\ OpsOf("listen") = <<"sendDISC", "cancel", "connClose", "playerClose", "exit1">>
          /\ exitStatus = 1 /\ ctxDone /\ connClosed /\ playerClosed
    /\ (proc = "exited" /\ exitCause # "startup" /\ waitResult = "none") =>
          exitCause = "nack"

----------------------------------------------------------------------------
(* C6: every PING handled while Connected makes exactly one PONG write,    *)
(* of the 4 bytes "PONG" followed by the 6 bytes of the encoded callsign;  *)
(* when the write fails the error is reported, and either way the process  *)
(* lives on and the receive loop returns to the top of its loop.           *)

C6_PingAnswered ==
    [][ (pings' = pings + 1 /\ Session = "Connected") =>
          /\ pongWrites' = pongWrites + 1
          /\ Len(encodeCallsign(callsign).bytes) = 6
          /\ \/ /\ sent' = Append(sent, [by  |-> "listen",
                                         pkt |-> <<80, 79, 78, 71>> \o encodeCallsign(callsign).bytes])
                /\ UNCHANGED <<tuiError, reports>>
             \/ /\ sent' = sent
                /\ tuiError' = "failed to send PONG packet"
                /\ reports' = reports + 1
          /\ proc' = "running" /\ exitStatus' = -1
          /\ listenpc' = "select"
          /\ UNCHANGED <<ctxDone, discClosed, connClosed, playerClosed>>
      ]_vars

C6_Witness ==
    /\ Session = "Connected"
    /\ pings = 1 /\ pongWrites = 1
    /\ \E i \in DOMAIN sent : sent[i] = [by |-> "listen", pkt |-> PongPacket]
    /\ listenpc = "select"

----------------------------------------------------------------------------
(* C7: handling a DISC while Connected closes the completion channel and   *)
(* reports the status, and has no other effect: nothing is sent, the       *)
(* context is not cancelled, nothing is released, the process and the      *)
(* receive loop go on.                                                     *)

C7_DiscOnlySignals ==
    [][ (HandleDISC /\ Session = "Connected") =>
          /\ discClosed'
          /\ tuiStatus' = "Received DISC packet"
          /\ listenpc' = "select"
          /\ UNCHANGED <<sent, ctxDone, connClosed, playerClosed, proc,
                         exitStatus, mainpc>>
      ]_vars

----------------------------------------------------------------------------
(* C8: after a DISC from the relay has been handled, the program goes on   *)
(* to end by itself, with no termination signal and no termbox event.      *)

C8_DiscShutsDown ==
    (discClosed /\ mainpc = "trigger") ~> (proc = "exited" \/ mainpc = "returned")

----------------------------------------------------------------------------
(* C9: the session only ever moves Connecting -> Connected, Connecting ->  *)
(* Disconnecting, Connected -> Disconnecting, Disconnecting -> Closed and  *)
(* Connecting -> Rejected; Closed and Rejected are left by no step.        *)

SessionMoves ==
    { <<"Connecting", "Connected">>, <<"Connecting", "Disconnecting">>,
      <<"Connected", "Disconnecting">>, <<"Disconnecting", "Closed">>,
      <<"Connecting", "Rejected">> }

\* how a session comes to be: not part of the five-state view
SessionStarts ==
    { <<"NotStarted", "Connecting">>, <<"NotStarted", "StartupFailed">> }

C9_OnlyListedMoves ==
    [][ Session' # Session => <<Session, Session'>> \in SessionMoves \cup SessionStarts ]_vars

----------------------------------------------------------------------------
(* C10: the process ends with a non-zero status only after a startup       *)
(* failure or a NACK.                                                      *)

C10_FailureStatus ==
    (proc = "exited" /\ exitStatus # 0) => exitCause \in {"startup", "nack"}

----------------------------------------------------------------------------
(* Steps of the receive loop as the claims about datagrams speak of them *)

\* this step takes the next datagram off the socket
Handles == Running /\ listenpc = "read" /\ queue # <<>> /\ queue' = Tail(queue)

\* a datagram from the relay that begins with the stream tag "M17 "
StreamTagged(d) == d.from = "peer" /\ d.len >= 4 /\ d.magic = <<77, 49, 55, 32>>

\* bit 0, bits 1-2 and bits 3-4 of a type value
StreamBit(t) == t % 2
DataType(t) == (t \div 2) % 4
EncryptionType(t) == (t \div 8) % 4

\* the Decode and Write calls made by this step
NewDecodes == SubSeq(decodeLog', Len(decodeLog) + 1, Len(decodeLog'))
NewWrites == SubSeq(audioLog', Len(audioLog) + 1, Len(audioLog'))

DecodeFailed == \E i \in DOMAIN NewDecodes : ~NewDecodes[i].ok
WriteFailed == \E i \in DOMAIN NewWrites : ~NewWrites[i].ok

----------------------------------------------------------------------------
(* C11: in every state a datagram whose source is not the relay is dropped *)
(* before packet handling: the step that reads it sends nothing, does not  *)
(* fire the completion signal, does not end the process, and calls neither *)
(* the vocoder nor the player; the loop goes back to its top.              *)

C11_UnknownSourceDropped ==
    [][ (Handles /\ Head(queue).from = "other") =>
          /\ sent' = sent
          /\ discClosed' = discClosed
          /\ proc' = "running" /\ exitStatus' = -1
          /\ NewDecodes = <<>> /\ NewWrites = <<>>
          /\ UNCHANGED <<pings, acknSeen, frames, ctxDone, connClosed,
                         playerClosed, tuiStatus>>
          /\ listenpc' = "select"
      ]_vars

C11_Witness ==
    /\ lastRead = [from |-> "other", magic |-> <<78, 65, 67, 75>>, len |-> 10,
                   typ |-> 0, pay |-> <<>>]
    /\ tuiError = "received packet from unknown source"
    /\ proc = "running"
    /\ listenpc = "select"
    /\ Len(sent) = 1

----------------------------------------------------------------------------
(* C12: a parsed frame whose stream bit is 0 or whose encryption type is   *)
(* not 0 is dropped with a status report and no call of the vocoder or the *)
(* player, whatever its data type.                                         *)

C12_ModeAndEncryptionFilter ==
    [][ (/\ Handles
         /\ StreamTagged(Head(queue))
         /\ Head(queue).len >= 54
         /\ StreamBit(Head(queue).typ) = 0 \/ EncryptionType(Head(queue).typ) # 0) =>
          /\ NewDecodes = <<>> /\ NewWrites = <<>>
          /\ UNCHANGED <<decodes, audioWrites, tuiError>>
          /\ tuiStatus' = "Ignoring packet mode or encrypted packet"
          /\ listenpc' = "select"
          /\ proc' = "running"
      ]_vars

C12_Witness ==
    /\ lastRead.from = "peer" /\ lastRead.magic = <<77, 49, 55, 32>>
    /\ lastRead.len = 54 /\ lastRead.typ = 13
    /\ tuiStatus = "Ignoring packet mode or encrypted packet"
    /\ frames = 1
    /\ decodeLog = <<>>
    /\ audioLog = <<>>

----------------------------------------------------------------------------
(* C13: a parsed frame whose data type is neither 2 nor 3 never reaches    *)
(* the vocoder; the vocoder is called in a step only for a frame with      *)
(* stream bit 1, encryption type 0 and data type 2 or 3.                   *)

C13_VoiceOnly ==
    [][ /\ (/\ Handles
            /\ StreamTagged(Head(queue))
            /\ Head(queue).len >= 54
            /\ DataType(Head(queue).typ) \notin {2, 3}) =>
               /\ NewDecodes = <<>> /\ NewWrites = <<>>
               /\ UNCHANGED <<decodes, audioWrites>>
               /\ listenpc' = "select"
        /\ (decodeLog' # decodeLog \/ decodes' # decodes) =>
               /\ Handles
               /\ StreamTagged(Head(queue))
               /\ Head(queue).len >= 54
               /\ StreamBit(Head(queue).typ) = 1
               /\ EncryptionType(Head(queue).typ) = 0
               /\ DataType(Head(queue).typ) \in {2, 3}
      ]_vars

C13_Witness ==
    /\ lastRead.from = "peer" /\ lastRead.magic = <<77, 49, 55, 32>>
    /\ lastRead.len = 54 /\ lastRead.typ = 3
    /\ tuiStatus = "Ignoring non-voice packet"
    /\ frames = 1
    /\ decodeLog = <<>>

----------------------------------------------------------------------------
(* C14: a stream-tagged datagram of 4 to 53 bytes is rejected with the     *)
(* length error before any field is extracted: one report, no frame        *)
(* parsed, no decode; every stream-tagged datagram of 54 bytes or more is  *)
(* parsed and its fields reported.                                         *)

C14_MinimumLength ==
    [][ /\ (Handles /\ StreamTagged(Head(queue)) /\ Head(queue).len <= 53) =>
               /\ tuiError' = "invalid M17 packet length"
               /\ reports' = reports + 1
               /\ frames' = frames
               /\ NewDecodes = <<>> /\ NewWrites = <<>>
               /\ UNCHANGED tuiStatus
               /\ listenpc' = "select"
        /\ (Handles /\ StreamTagged(Head(queue)) /\ Head(queue).len >= 54) =>
               /\ frames' = frames + 1
               /\ reports' >= reports + 12
               /\ tuiError' # "invalid M17 packet length" \/ tuiError' = tuiError
      ]_vars

C14_Witness ==
    /\ lastRead.from = "peer" /\ lastRead.magic = <<77, 49, 55, 32>>
    /\ lastRead.len = 53 /\ lastRead.typ = 5
    /\ tuiError = "invalid M17 packet length"
    /\ frames = 0
    /\ reports = 1

----------------------------------------------------------------------------
(* C15: when the vocoder fails on either half of a frame, the error is     *)
(* reported, nothing of the frame is written to the player, and the        *)
(* receive loop returns to its top with the process running.               *)

C15_DecodeFailureDropsFrame ==
    [][ DecodeFailed =>
          /\ NewWrites = <<>>
          /\ audioWrites' = audioWrites
          /\ tuiError' \in {"failed to decode first voice frame",
                            "failed to decode second voice frame"}
          /\ reports' > reports
          /\ listenpc' = "select"
          /\ proc' = "running"
          /\ UNCHANGED <<discClosed, ctxDone, sent>>
      ]_vars

C15_Witness ==
    /\ Len(decodeLog) = 4
    /\ decodeLog[1].ok /\ ~decodeLog[2].ok
    /\ decodeLog[3].ok /\ decodeLog[4].ok
    /\ Len(audioLog) = 1
    /\ audioLog[1].ok
    /\ proc = "running"

----------------------------------------------------------------------------
(* C16: for a frame that passes both filters and whose halves both decode, *)
(* the vocoder is called exactly twice, on the first half and then on the  *)
(* second, and the player gets exactly one write: the samples of the first *)
(* half followed by those of the second, two bytes each, low byte first.   *)
(* Writes are only ever added at the end, in the order the frames are read.*)

\* the two bytes of one int16 sample, low byte first
SampleBytes(x) ==
    LET u == IF x < 0 THEN x + 65536 ELSE x
    IN  <<u % 256, u \div 256>>

RECURSIVE BytesOfSamples(_)
BytesOfSamples(block) ==
    IF block = <<>> THEN <<>>
    ELSE SampleBytes(Head(block)) \o BytesOfSamples(Tail(block))

\* payload bytes 0..7 and 8..15 (1..8 and 9..16 counting from 1)
FirstHalf(payload) == [i \in 1..8 |-> payload[i]]
SecondHalf(payload) == [i \in 1..8 |-> payload[8 + i]]

\* the samples of the first half followed by those of the second, as bytes
ExpectedPcm(payload) ==
    BytesOfSamples(Samples(FirstHalf(payload))) \o BytesOfSamples(Samples(SecondHalf(payload)))

C16_BothHalvesPlayed ==
    [][ /\ (/\ Handles
            /\ StreamTagged(Head(queue))
            /\ Head(queue).len >= 54
            /\ StreamBit(Head(queue).typ) = 1
            /\ EncryptionType(Head(queue).typ) = 0
            /\ DataType(Head(queue).typ) \in {2, 3}
            /\ ~DecodeFailed) =>
               /\ NewDecodes = <<[half |-> FirstHalf(Head(queue).pay), ok |-> TRUE],
                                 [half |-> SecondHalf(Head(queue).pay), ok |-> TRUE]>>
               /\ decodes' = decodes + 2
               /\ Len(NewWrites) = 1
               /\ NewWrites[1].pcm = ExpectedPcm(Head(queue).pay)
               /\ audioWrites' = audioWrites + 1
        /\ IsPrefix(audioLog, audioLog')
        /\ IsPrefix(decodeLog, decodeLog')
      ]_vars

C16_Witness ==
    /\ Len(audioLog) = 2
    /\ audioLog[1] = [pcm |-> <<101, 0, 148, 255, 109, 0, 140, 255>>, ok |-> TRUE]
    /\ audioLog[2] = [pcm |-> <<1, 0, 248, 255, 9, 0, 240, 255>>, ok |-> TRUE]
    /\ Len(decodeLog) = 4

----------------------------------------------------------------------------
(* C17: a malformed datagram, an identifier that does not encode, a failed *)
(* PONG write, a vocoder failure and a failed player write are absorbed:   *)
(* the step leaves the process running, the completion signal and the      *)
(* context as they were, nothing released, and the receive loop at the top *)
(* of its loop.                                                            *)

\* this step meets one of the absorbed failures
FaultStep ==
    /\ Handles
    /\ \/ Head(queue).from = "peer" /\ Head(queue).len < 4
       \/ StreamTagged(Head(queue)) /\ Head(queue).len < 54
       \/ pings' = pings + 1 /\ pongWrites' = pongWrites
       \/ pongWrites' = pongWrites + 1 /\ sent' = sent
       \/ DecodeFailed
       \/ WriteFailed

C17_FaultsAbsorbed ==
    [][ FaultStep =>
          /\ proc' = "running" /\ exitStatus' = -1
          /\ listenpc' = "select"
          /\ UNCHANGED <<discClosed, ctxDone, connClosed, playerClosed, mainpc>>
      ]_vars

C17_Witness ==
    /\ family = "control"
    /\ pongWrites = 1
    /\ \A i \in DOMAIN sent : sent[i].by = "main"
    /\ tuiError = "failed to play audio"
    /\ Len(audioLog) = 1 /\ ~audioLog[1].ok
    /\ proc = "running"
    /\ listenpc = "select"
    /\ ~discClosed

----------------------------------------------------------------------------
(* Strings as the codec claims speak of them *)

\* the 40 symbols: space, A-Z, 0-9, '-', '/', '.'
Alphabet == {32} \cup (65..90) \cup (48..57) \cup {45, 47, 46}

OverAlphabet(str) == \A i \in DOMAIN str : str[i] \in Alphabet

RECURSIVE StripLeading(_)
StripLeading(str) ==
    IF str # <<>> /\ Head(str) = 32 THEN StripLeading(Tail(str)) ELSE str

RECURSIVE StripTrailing(_)
StripTrailing(str) ==
    IF str # <<>> /\ str[Len(str)] = 32
    THEN StripTrailing(SubSeq(str, 1, Len(str) - 1))
    ELSE str

\* a round trip has been made on a string the claims cover
RoundTripDone ==
    /\ codecPc = "decoded"
    /\ Len(codecIn) <= MaxCallsignLen
    /\ OverAlphabet(codecIn)

----------------------------------------------------------------------------
(* C18: for every string s of at most 9 characters over the alphabet,      *)
(* decode(encode(s)) is s with its leading spaces stripped.                *)

C18_LeadingStripped ==
    RoundTripDone => codecDec = StripLeading(codecIn)

(* C18 as amended: decode(encode(s)) is an initial part of s that does not *)
(* end in a space, and what it leaves out of s is spaces only: spaces at   *)
(* the end are dropped, spaces in front are kept.                          *)

C18_TrailingDropped ==
    RoundTripDone =>
        /\ IsPrefix(codecDec, codecIn)
        /\ \A i \in (Len(codecDec) + 1)..Len(codecIn) : codecIn[i] = 32
        /\ codecDec = <<>> \/ codecDec[Len(codecDec)] # 32

C18_Witness ==
    /\ codecPc = "decoded"
    /\ codecIn = <<32, 65, 32>>
    /\ codecDec = <<32, 65>>

----------------------------------------------------------------------------
(* C19: decoding stops when the remaining value is zero: for every valid   *)
(* s of at most 9 characters decode(encode(s)) is s without its trailing   *)
(* spaces, everything before the last non-space character unchanged, and   *)
(* the all-zero address decodes to the empty string.                       *)

C19_StopsAtZero ==
    RoundTripDone =>
        /\ codecDec = StripTrailing(codecIn)
        /\ codecEnc.bytes = <<0, 0, 0, 0, 0, 0>> => codecDec = <<>>
        /\ Len(codecDec) <= Len(codecIn)

C19_Witness ==
    /\ codecPc = "decoded"
    /\ codecIn = <<65, 32, 57>> \o Pad(32, 6)
    /\ codecDec = <<65, 32, 57>>

----------------------------------------------------------------------------
(* C20: encode fails, returning no bytes, for every string with a          *)
(* character outside the alphabet, wherever it stands, and succeeds (with  *)
(* 6 bytes) for every string over the alphabet, spaces included.           *)

C20_InvalidCharacter ==
    codecPc \in {"encoded", "decoded"} =>
        /\ codecEnc.ok <=> OverAlphabet(codecIn)
        /\ ~codecEnc.ok => codecEnc.bytes = <<>>
        /\ codecEnc.ok => Len(codecEnc.bytes) = 6

C20_Witness ==
    /\ codecPc = "encoded"
    /\ ~codecEnc.ok
    /\ Len(codecIn) = MaxCallsignLen
    /\ codecIn[1] = 35
    /\ \A i \in 2..Len(codecIn) : codecIn[i] = 32

----------------------------------------------------------------------------
(* Numbers as the codec claims speak of them: a number of 48 bits is six    *)
(* bytes, most significant first, and its base-40 digits are found by       *)
(* dividing those bytes by 40, byte by byte.                                *)

\* space=0, A..Z=1..26, 0..9=27..36, '-'=37, '/'=38, '.'=39
Symbol(c) ==
    IF c = 32 THEN 0
    ELSE IF c \in 65..90 THEN c - 64
    ELSE IF c \in 48..57 THEN c - 21
    ELSE IF c = 45 THEN 37
    ELSE IF c = 47 THEN 38
    ELSE 39

Symbols(str) == [i \in 1..Len(str) |-> Symbol(str[i])]

\* quotient and remainder of the number b by 40
Div40(b) ==
    LET c1 == b[1]
        c2 == (c1 % 40) * 256 + b[2]
        c3 == (c2 % 40) * 256 + b[3]
        c4 == (c3 % 40) * 256 + b[4]
        c5 == (c4 % 40) * 256 + b[5]
        c6 == (c5 % 40) * 256 + b[6]
    IN  [quot |-> <<c1 \div 40, c2 \div 40, c3 \div 40, c4 \div 40, c5 \div 40,
                    c6 \div 40>>,
         rem  |-> c6 % 40]

\* the n lowest base-40 digits of b, lowest first
RECURSIVE Digits(_, _)
Digits(b, n) ==
    IF n = 0 THEN <<>> ELSE <<Div40(b).rem>> \o Digits(Div40(b).quot, n - 1)

\* what is left of b above those n digits
RECURSIVE Above(_, _)
Above(b, n) == IF n = 0 THEN b ELSE Above(Div40(b).quot, n - 1)

\* b is the sum of digits[i] * 40^(i-1)
HoldsDigits(b, digits) ==
    /\ Len(b) = 6
    /\ Digits(b, Len(digits)) = digits
    /\ Above(b, Len(digits)) = <<0, 0, 0, 0, 0, 0>>

----------------------------------------------------------------------------
(* C21: for every string s of at most 9 characters over the alphabet,      *)
(* encode(s) is 6 bytes that hold, most significant byte first, the sum of *)
(* symbol(s[i]) * 40^i: the first character is the lowest base-40 digit.   *)
(* encode("A") is 00 00 00 00 00 01.                                       *)

C21_Base40Value ==
    (/\ codecPc \in {"encoded", "decoded"}
     /\ Len(codecIn) <= 9
     /\ OverAlphabet(codecIn)) =>
        /\ codecEnc.ok
        /\ HoldsDigits(codecEnc.bytes, Symbols(codecIn))
        /\ codecIn = <<65>> => codecEnc.bytes = <<0, 0, 0, 0, 0, 1>>

\* "A9." is 1 + 36*40 + 39*1600 = 63841 = 0xF961
C21_Witness ==
    /\ codecPc = "encoded"
    /\ codecIn = <<65, 57, 46>>
    /\ codecEnc = [ok |-> TRUE, bytes |-> <<0, 0, 0, 0, 249, 97>>]

----------------------------------------------------------------------------
(* C22: decode has no error case: for every 6 bytes it returns a string    *)
(* over the alphabet whose characters are the base-40 digits of the value, *)
(* lowest first, up to and including the highest digit that is not zero.   *)

C22_DecodeTotal ==
    codecPc = "wireDecoded" =>
        /\ OverAlphabet(codecDec)
        /\ HoldsDigits(codecWire, Symbols(codecDec))
        /\ codecDec # <<>> => Symbol(codecDec[Len(codecDec)]) # 0
        /\ Len(codecDec) <= 10

\* FF FF FF FF FF FF has ten digits, the highest of them 1 ('A')
C22_Witness ==
    /\ codecPc = "wireDecoded"
    /\ codecWire = <<255, 255, 255, 255, 255, 255>>
    /\ Len(codecDec) = 10
    /\ codecDec[10] = 65

----------------------------------------------------------------------------
(* C23: for every 16-bit type value the stream indicator is bit 0, the     *)
(* data type bits 1-2, the encryption type bits 3-4, the encryption        *)
(* subtype bits 5-6 and the channel access number bits 7-10; bits 11-15    *)
(* have no part in any of them.  0x0005 gives 1, 2, 0, 0, 0.               *)

\* bit k of the type value parsed
TypeBit(k) == (typeIn \div (2 ^ k)) % 2

C23_TypeFieldBits ==
    codecPc = "typeParsed" =>
        /\ typeOut.packetStreamIndicator = TypeBit(0)
        /\ typeOut.dataTypeIndicator = TypeBit(1) + 2 * TypeBit(2)
        /\ typeOut.encryptionType = TypeBit(3) + 2 * TypeBit(4)
        /\ typeOut.encryptionSubtype = TypeBit(5) + 2 * TypeBit(6)
        /\ typeOut.channelAccessNumber =
              TypeBit(7) + 2 * TypeBit(8) + 4 * TypeBit(9) + 8 * TypeBit(10)
        /\ typeIn = 5 =>
              typeOut = [ packetStreamIndicator |-> 1, dataTypeIndicator |-> 2,
                          encryptionType |-> 0, encryptionSubtype |-> 0,
                          channelAccessNumber |-> 0 ]

\* 0xF805: the five highest bits set on top of 0x0005
C23_Witness ==
    /\ codecPc = "typeParsed"
    /\ typeIn = 63493
    /\ typeOut = [ packetStreamIndicator |-> 1, dataTypeIndicator |-> 2,
                   encryptionType |-> 0, encryptionSubtype |-> 0,
                   channelAccessNumber |-> 0 ]

----------------------------------------------------------------------------
(* Packets as the claims about them speak of them *)

\* the first four bytes of a packet
TagOf(pkt) == SubSeq(pkt, 1, 4)

\* the packets written so far that begin with the given tag
SentWith(tag) == {i \in DOMAIN sent : TagOf(sent[i].pkt) = tag}

\* the datagram this step hands to packet handling
PeerDatagram == Handles /\ Head(queue).from = "peer"

----------------------------------------------------------------------------
(* C24: the listen-request is "LSTN", the 6 bytes of the encoded callsign, *)
(* and one module byte exactly when a module letter was given on the       *)
(* command line: 10 bytes without one, 11 with one.  PONG and DISC are the *)
(* tag and the 6 bytes, 10 bytes in all.                                   *)

C24_PacketLayout ==
    \A i \in DOMAIN sent :
        LET pkt == sent[i].pkt
        IN  /\ TagOf(pkt) \in {<<76, 83, 84, 78>>, <<80, 79, 78, 71>>, <<68, 73, 83, 67>>}
            /\ HoldsDigits(SubSeq(pkt, 5, 10), Symbols(callsign))
            /\ TagOf(pkt) = <<76, 83, 84, 78>> =>
                  IF moduleGiven
                  THEN Len(pkt) = 11 /\ pkt[11] = moduleLetter
                  ELSE Len(pkt) = 10
            /\ TagOf(pkt) # <<76, 83, 84, 78>> => Len(pkt) = 10

----------------------------------------------------------------------------
(* C25: a datagram from the relay of fewer than 4 bytes, or one that       *)
(* begins with none of PING, ACKN, NACK, DISC and "M17 " (a LSTN or a PONG *)
(* among them), is a no-op: nothing is sent, the completion signal and the *)
(* session are as before, nothing is reported.                             *)

C25_NoiseIsNoOp ==
    [][ (/\ PeerDatagram
         /\ \/ Head(queue).len < 4
            \/ Head(queue).magic \notin {<<80, 73, 78, 71>>, <<65, 67, 75, 78>>,
                                         <<78, 65, 67, 75>>, <<68, 73, 83, 67>>,
                                         <<77, 49, 55, 32>>}) =>
          /\ sent' = sent
          /\ Session' = Session
          /\ UNCHANGED <<discClosed, ctxDone, connClosed, playerClosed, proc,
                         exitStatus, tuiStatus, tuiError, reports, acknSeen,
                         pings, frames, decodes, audioWrites, mainpc>>
          /\ NewDecodes = <<>> /\ NewWrites = <<>>
          /\ listenpc' = "select"
      ]_vars

\* a PONG, a LSTN and a datagram of 3 bytes have been read, the LSTN last
C25_Witness ==
    /\ family = "noise"
    /\ budget = 0 /\ queue = <<>>
    /\ lastRead = [from |-> "peer", magic |-> <<76, 83, 84, 78>>, len |-> 11,
                   typ |-> 0, pay |-> <<>>]
    /\ reports = 0 /\ tuiStatus = "" /\ tuiError = ""
    /\ Len(sent) = 1
    /\ listenpc = "select"
    /\ proc = "running"

----------------------------------------------------------------------------
(* C26: the callsign is "LSTN" and 5 characters out of A-Z and 0-9, 9 in   *)
(* all, and no step changes it; it encodes, no step reports that it does   *)
(* not; and every LSTN, PONG and DISC a step writes carries the same 6     *)
(* bytes as the first packet written, the encoding of that callsign.       *)

C26_OneIdentifier ==
    [][ /\ callsign' = callsign
        /\ Len(callsign) = 9
        /\ SubSeq(callsign, 1, 4) = <<76, 83, 84, 78>>
        /\ \A i \in 5..9 : callsign[i] \in (65..90) \cup (48..57)
        /\ mainpc = "start" => encodeCallsign(callsign).ok
        /\ tuiError' # "failed to encode callsign"
        /\ \A i \in (Len(sent) + 1)..Len(sent') :
              /\ Len(sent'[i].pkt) >= 10
              /\ SubSeq(sent'[i].pkt, 5, 10) = SubSeq(sent'[1].pkt, 5, 10)
              /\ HoldsDigits(SubSeq(sent'[i].pkt, 5, 10), Symbols(callsign))
      ]_vars

\* one LSTN, one PONG and one DISC have been written
C26_Witness ==
    /\ Len(sent) = 3
    /\ TagOf(sent[1].pkt) = <<76, 83, 84, 78>>
    /\ TagOf(sent[2].pkt) = <<80, 79, 78, 71>>
    /\ TagOf(sent[3].pkt) = <<68, 73, 83, 67>>
    /\ callsign = <<76, 83, 84, 78, 75, 57, 90, 48, 81>>

----------------------------------------------------------------------------
(* C27: the completion signal fires at most once, and a DISC from the      *)
(* relay is absorbed whenever it comes, the first time or again: the       *)
(* signal has fired after it, the process runs on and the receive loop     *)
(* returns to its top.                                                     *)

C27_SecondDiscAbsorbed ==
    [][ /\ (PeerDatagram /\ Head(queue).len >= 4
              /\ Head(queue).magic = <<68, 73, 83, 67>>) =>
               /\ discClosed'
               /\ proc' = "running" /\ exitStatus' = -1
               /\ listenpc' = "select"
        /\ discClosed => discClosed'
      ]_vars

----------------------------------------------------------------------------
(* C28: once the context is cancelled, a receive loop parked in the read   *)
(* comes to an end, whether or not another datagram arrives.               *)

C28_ParkedLoopEnds ==
    (ctxDone /\ listenpc = "read" /\ proc = "running")
        ~> (listenpc = "stopped" \/ proc = "exited")

----------------------------------------------------------------------------
(* C29: the receive loop returns only from the top of an iteration with    *)
(* the context cancelled, or from a read that failed on a closed socket;   *)
(* any other read error is reported and the loop is back at its top, as    *)
(* often as such errors come.                                              *)

C29_ReadErrorsGoOn ==
    [][ /\ (listenpc # "stopped" /\ listenpc' = "stopped") =>
               \/ listenpc = "select" /\ ctxDone
               \/ /\ Handles /\ Head(queue).from = "neterr"
                  /\ connClosed
        /\ (Handles /\ Head(queue).from = "neterr" /\ ~connClosed) =>
               /\ tuiError' = "failed to read from UDP"
               /\ reports' = reports + 1
               /\ listenpc' = "select"
               /\ proc' = "running"
               /\ UNCHANGED <<sent, discClosed, ctxDone, tuiStatus, mainpc>>
      ]_vars

\* three reads have failed one after the other, and the loop reads again
C29_Witness ==
    /\ budget = 0 /\ queue = <<>>
    /\ lastRead.from = "neterr"
    /\ reports = MaxEvents
    /\ tuiError = "failed to read from UDP"
    /\ listenpc = "read"
    /\ proc = "running"

----------------------------------------------------------------------------
(* C30: exactly one listen-request is written, by the control path before  *)
(* the receive loop starts, and no other one whatever is received later.   *)

C30_OneListenRequest ==
    /\ mainpc = "start" => (sent = <<>> /\ listenpc = "idle")
    /\ (mainpc # "start" \/ listenpc # "idle") =>
          /\ SentWith(<<76, 83, 84, 78>>) = {1}
          /\ sent[1].by = "main"

\* three PINGs answered, no ACKN and no NACK, the session closed on the
\* timeout: still one listen-request
C30_Witness ==
    /\ mainpc = "returned"
    /\ waitResult = "timeout"
    /\ ~acknSeen
    /\ pings = MaxEvents
    /\ SentWith(<<76, 83, 84, 78>>) = {1}
    /\ Len(sent) >= 3

----------------------------------------------------------------------------
(* C31: once the context is cancelled the receive loop handles at most one *)
(* more datagram: a read that returns after the cancellation leaves the    *)
(* loop at its top, from its top the loop can then only stop, and once it  *)
(* has stopped nothing is taken off the socket any more.                   *)

C31_AtMostOneLateRead ==
    [][ /\ ctxDone => ctxDone'
        /\ (ctxDone /\ Handles) => (listenpc' = "select" \/ proc' = "exited")
        /\ (ctxDone /\ listenpc = "select") => listenpc' \in {"select", "stopped"}
        /\ listenpc = "stopped" => (listenpc' = "stopped" /\ IsPrefix(queue, queue'))
      ]_vars

\* the timer ran out before any DISC was handled, so the DISC was read
\* after the cancellation; the loop has stopped and a datagram is left
C31_Witness ==
    /\ ctxDone
    /\ elapsed = WaitSeconds
    /\ discClosed
    /\ listenpc = "stopped"
    /\ queue # <<>>
    /\ proc = "running"

----------------------------------------------------------------------------
(* C32: what a datagram from the relay does is the same with and without   *)
(* an ACKN handled before: a PING gets its PONG, a voice frame is decoded  *)
(* and played, a frame that fails a filter is not decoded, a first DISC    *)
(* fires the completion signal, a NACK ends the process with status 1; an  *)
(* ACKN after the first reports the status again and changes nothing else. *)

\* the datagram handled has the given tag
PeerTag(tag) == PeerDatagram /\ Head(queue).len >= 4 /\ Head(queue).magic = tag

\* the datagram handled is a frame that passes both filters
PeerVoice ==
    /\ PeerTag(<<77, 49, 55, 32>>)
    /\ Head(queue).len >= 54
    /\ StreamBit(Head(queue).typ) = 1
    /\ EncryptionType(Head(queue).typ) = 0
    /\ DataType(Head(queue).typ) \in {2, 3}

C32_HandshakeIndependent ==
    [][ /\ PeerTag(<<80, 73, 78, 71>>) =>
               /\ pongWrites' = pongWrites + 1
               /\ \/ sent' = Append(sent, [by  |-> "listen",
                                            pkt |-> <<80, 79, 78, 71>> \o SubSeq(sent[1].pkt, 5, 10)])
                  \/ sent' = sent /\ tuiError' = "failed to send PONG packet"
               /\ proc' = "running" /\ listenpc' = "select"
        /\ PeerVoice =>
               /\ Len(NewDecodes) \in {1, 2}
               /\ ~DecodeFailed => (Len(NewDecodes) = 2 /\ Len(NewWrites) = 1)
               /\ proc' = "running" /\ listenpc' = "select"
        /\ (PeerTag(<<77, 49, 55, 32>>) /\ ~PeerVoice) =>
               (NewDecodes = <<>> /\ NewWrites = <<>>)
        /\ (PeerTag(<<68, 73, 83, 67>>) /\ ~discClosed) =>
               /\ discClosed'
               /\ tuiStatus' = "Received DISC packet"
               /\ proc' = "running" /\ listenpc' = "select"
        /\ PeerTag(<<78, 65, 67, 75>>) =>
               /\ proc' = "exited" /\ exitStatus' = 1
               /\ tuiStatus' = "Connection not accepted by relay/reflector"
        /\ PeerTag(<<65, 67, 75, 78>>) =>
               /\ tuiStatus' = "Connection accepted by relay/reflector"
               /\ reports' = reports + 1
               /\ proc' = "running" /\ listenpc' = "select"
               /\ UNCHANGED <<sent, discClosed, ctxDone, connClosed, playerClosed,
                              tuiError, pings, pongWrites, frames, decodes,
                              audioWrites, mainpc>>
               /\ acknSeen => Session' = Session
      ]_vars

\* with no ACKN handled: a PING answered, a frame played, a DISC signalled
C32_Witness ==
    /\ ~acknSeen
    /\ pings = 1
    /\ \E i \in DOMAIN sent : sent[i].by = "listen" /\ TagOf(sent[i].pkt) = <<80, 79, 78, 71>>
    /\ Len(audioLog) = 1 /\ audioLog[1].ok
    /\ discClosed
    /\ proc = "running"

----------------------------------------------------------------------------
(* C33: when the completion signal had fired by the time of the shutdown   *)
(* trigger, the control path still attempts its DISC, then cancels the     *)
(* context, and its wait ends on the signal with no time passing.          *)

\* the control path moves on
MainMoves == mainpc' # mainpc

C33_SignalledBeforeTrigger ==
    [][ /\ firedAtTrigger' => discClosed'
        /\ (firedAtTrigger /\ mainpc = "sendDISC" /\ MainMoves) =>
               /\ mainpc' = "cancel"
               /\ ops' = Append(ops, <<"main", "sendDISC">>)
               /\ \/ sent' = sent
                  \/ sent' = Append(sent, [by  |-> "main",
                                            pkt |-> <<68, 73, 83, 67>> \o SubSeq(sent[1].pkt, 5, 10)])
        /\ (firedAtTrigger /\ mainpc = "cancel" /\ MainMoves) =>
               (mainpc' = "wait" /\ ctxDone')
        /\ (firedAtTrigger /\ mainpc = "wait") =>
               /\ elapsed = 0 /\ elapsed' = 0
               /\ MainMoves => (mainpc' = "returned" /\ waitResult' = "signal")
      ]_vars

C33_Witness ==
    /\ firedAtTrigger
    /\ mainpc = "returned"
    /\ waitResult = "signal"
    /\ elapsed = 0
    /\ ctxDone
    /\ \E i \in DOMAIN sent : sent[i].by = "main" /\ TagOf(sent[i].pkt) = <<68, 73, 83, 67>>

----------------------------------------------------------------------------
(* C34: decoding any 6 bytes gives a string of at most 9 characters over   *)
(* the alphabet, which encode accepts and maps back to the same 6 bytes.   *)

C34_DecodeInDomain ==
    /\ codecPc \in {"wireDecoded", "reencoded"} =>
          (Len(codecDec) <= 9 /\ OverAlphabet(codecDec))
    /\ codecPc = "reencoded" =>
          (codecEnc.ok /\ codecEnc.bytes = codecWire)

----------------------------------------------------------------------------
(* C35: a frame of 54 bytes or more has its 12 parsed fields reported once *)
(* each, whether it is then played or dropped by a filter as non-stream,   *)
(* encrypted or non-voice; a shorter frame reports the length error only.  *)

\* the frame handled is dropped by one of the two filters
Filtered ==
    \/ StreamBit(Head(queue).typ) = 0
    \/ EncryptionType(Head(queue).typ) # 0
    \/ DataType(Head(queue).typ) \notin {2, 3}

C35_FieldsBeforeFilters ==
    [][ /\ (PeerTag(<<77, 49, 55, 32>>) /\ Head(queue).len >= 54) =>
               /\ Len(tuiFields') = 12
               /\ {tuiFields'[i] : i \in 1..12} =
                     { "StreamID", "FrameNumber", "DST", "SRC", "TYPE", "META",
                       "Payload", "PacketStreamIndicator", "DataTypeIndicator",
                       "EncryptionType", "EncryptionSubtype", "ChannelAccessNumber" }
               /\ frames' = frames + 1
               /\ reports' \in {reports + 12, reports + 13}
               /\ Filtered =>
                     /\ reports' = reports + 13
                     /\ tuiStatus' \in {"Ignoring packet mode or encrypted packet",
                                        "Ignoring non-voice packet"}
                     /\ tuiError' = tuiError
        /\ (PeerTag(<<77, 49, 55, 32>>) /\ Head(queue).len < 54) =>
               /\ tuiFields' = tuiFields
               /\ frames' = frames
               /\ reports' = reports + 1
               /\ tuiError' = "invalid M17 packet length"
               /\ tuiStatus' = tuiStatus
        /\ tuiFields' # tuiFields => PeerTag(<<77, 49, 55, 32>>)
      ]_vars

\* one frame with stream bit 0: twelve fields and the status, 13 reports
C35_Witness ==
    /\ lastRead.from = "peer" /\ lastRead.magic = <<77, 49, 55, 32>>
    /\ lastRead.len = 54 /\ lastRead.typ = 4
    /\ Len(tuiFields) = 12
    /\ reports = 13
    /\ tuiStatus = "Ignoring packet mode or encrypted packet"
    /\ decodeLog = <<>>

====
